---- MODULE Spec2Model ----
(***************************************************************************)
(* A model of react-discord-login: the useDiscordLogin hook                *)
(* (src/src/useDiscordLogin.ts, the second, current revision in the file)  *)
(* and the utilities it calls (getQueryAndHash, getCallbackResponse,       *)
(* shouldHandleCallback, fetchUser; the implementation that follows the    *)
(* tests in src/src/utils.test.ts).                                        *)
(*                                                                         *)
(* JavaScript runs one synchronous segment at a time, to its end: a step   *)
(* of the model is one such segment, from the call of callbackRunner or    *)
(* the resumption of an await to the next await or to the settling of the  *)
(* evaluation.  The settling of an awaited promise is a step of its own,   *)
(* and the segment it resumes is the step that follows it.  The component  *)
(* is unmounted, re-rendered or notified of a navigation between segments. *)
(*                                                                         *)
(* Spec is the hook in its environment, FairSpec adds that every awaited   *)
(* promise settles, and ParserSpec applies the utilities on their own to   *)
(* every location written with a few items.  TokenSpec does the same on    *)
(* token callbacks, FetchSpec applies fetchUser over the behaviours of the *)
(* transport, and ConfigSpec applies normalizeDiscordConfig and            *)
(* generateUrl to a set of LoginParams, with and without a window.         *)
(* ReactivationSpec is Spec in an environment that may run the effects of  *)
(* the same hook instance a second time.                                   *)
(***************************************************************************)
EXTENDS Integers, Sequences, FiniteSets, Bags, TLC

(* ----------------------------- bounds --------------------------------- *)
\* number of evaluations (callbackRunner invocations) one run may start
MaxEvals == 2

\* number of items in the query and the fragment together of a location
\* handed to the parser and the detector alone
MaxParams == 3
\* number of scopes in the LoginParams of ConfigSpec
MaxScopes == 2

(* ------------------------- JavaScript values --------------------------- *)
\* the value null, as returned by URLSearchParams.get for a missing key
JsNull == "<js-null>"

\* String(v)
StringOf(v) == IF v = JsNull THEN "null" ELSE v

\* a test that takes everything but the empty string for present
Truthy_NotEmpty(v) == v # ""

\* truthiness of a string-or-null value
Truthy(v) == v # JsNull /\ v # ""

Digits == {"0", "1", "2", "3", "4", "5", "6", "7", "8", "9"}

\* Number(v) for a string-or-null value, rendered as text ("NaN" when invalid)
NumberOf(v) ==
    IF v = JsNull \/ v = "" THEN "0"
    ELSE IF \A i \in 1..Len(v) : SubSeq(v, i, i) \in Digits THEN v
    ELSE "NaN"

RECURSIVE SplitFrom(_, _)
SplitFrom(s, cur) ==
    IF Len(s) = 0 THEN <<cur>>
    ELSE IF SubSeq(s, 1, 1) = " "
         THEN <<cur>> \o SplitFrom(SubSeq(s, 2, Len(s)), "")
         ELSE SplitFrom(SubSeq(s, 2, Len(s)), cur \o SubSeq(s, 1, 1))

\* parts.join(' ')
RECURSIVE JoinSpace(_)
JoinSpace(parts) ==
    IF Len(parts) = 0 THEN ""
    ELSE IF Len(parts) = 1 THEN parts[1]
    ELSE parts[1] \o " " \o JoinSpace(Tail(parts))

\* a parser that hands the scope on as one string
SplitSpace_Unsplit(s) == <<s>>

\* s.split(' ')
SplitSpace(s) == SplitFrom(s, "")

\* s.startsWith(p)
StartsWith(s, p) == Len(s) >= Len(p) /\ SubSeq(s, 1, Len(p)) = p

(* --------------------------- URLSearchParams --------------------------- *)
\* window.location.search (without its "?") and window.location.hash
\* (without its "#") are sequences of items as they are written between the
\* "&"s: "k=v" or a bare "k".  Keys and values are held percent-decoded.
Written(k, v, eq) == [k |-> k, v |-> v, eq |-> eq]

\* the item "k=v"
Assign(k, v) == Written(k, v, TRUE)

\* the item "k", written without "="
Bare(k) == Written(k, "", FALSE)

\* a parameter list (a URLSearchParams) is a sequence of [k, v] pairs
Pair(k, v) == [k |-> k, v |-> v]

\* new URLSearchParams(text): a bare key is a key with the empty value
ParamsOf(raw) ==
    IF raw = <<>> THEN <<>>
    ELSE [i \in 1..Len(raw) |-> Pair(raw[i].k, raw[i].v)]

\* URLSearchParams.toString(): every pair is written "k=v"
ParamsToString(ps) ==
    IF ps = <<>> THEN <<>>
    ELSE [i \in 1..Len(ps) |-> Assign(ps[i].k, ps[i].v)]

\* URLSearchParams.get: the first value of the key, or null
ParamGet(ps, k) ==
    LET idx == {i \in 1..Len(ps) : ps[i].k = k}
    IN  IF idx = {} THEN JsNull
        ELSE ps[CHOOSE i \in idx : \A j \in idx : i <= j].v

\* the keys that have a non-empty value
ParamKeys_WithValue(ps) == {ps[i].k : i \in {j \in 1..Len(ps) : ps[j].v # ""}}

\* Array.from(params.keys())
ParamKeys(ps) == {ps[i].k : i \in 1..Len(ps)}

\* URLSearchParams.delete: removes every pair of the key
ParamDelete(ps, k) == SelectSeq(ps, LAMBDA p : p.k # k)

RECURSIVE ParamDeleteAll(_, _)
ParamDeleteAll(ps, ks) ==
    IF ks = <<>> THEN ps ELSE ParamDeleteAll(ParamDelete(ps, Head(ks)), Tail(ks))

\* URLSearchParams.set: overwrite the first pair of the key and drop the
\* others, or append when the key is new
ParamSet(ps, k, v) ==
    LET idx == {i \in 1..Len(ps) : ps[i].k = k}
    IN  IF idx = {} THEN Append(ps, Pair(k, v))
        ELSE LET first == CHOOSE i \in idx : \A j \in idx : i <= j
                 head == SubSeq(ps, 1, first - 1)
                 rest == ParamDelete(SubSeq(ps, first + 1, Len(ps)), k)
             IN  head \o <<Pair(k, v)>> \o rest

RECURSIVE ParamSetEach(_, _)
ParamSetEach(params, src) ==
    IF src = <<>> THEN params
    ELSE ParamSetEach(ParamSet(params, Head(src).k, Head(src).v), Tail(src))

\* a merge that reads the fragment first and the query second
getQueryAndHash_QueryLast(l) ==
    ParamSetEach(ParamSetEach(<<>>, ParamsOf(l.hash)), ParamsOf(l.search))

\* getQueryAndHash: query first, fragment second (the fragment overwrites)
getQueryAndHash(l) ==
    ParamSetEach(ParamSetEach(<<>>, ParamsOf(l.search)), ParamsOf(l.hash))

\* shouldHandleCallback
shouldHandleCallback(l) ==
    LET keys == ParamKeys(getQueryAndHash(l))
    IN  \E target \in {"code", "error", "token_type"} : target \in keys

\* a CallbackResponse; an optional field is a sequence of length 0 or 1,
\* and type "null" is the value null.  return { type: null }
NullResponse == [type |-> "null", error |-> <<>>, token |-> <<>>, code |-> <<>>]

\* getCallbackResponse: return { type: 'error', error: { ... } }
ErrorResponse(params) ==
    [NullResponse EXCEPT
        !.type = "error",
        !.error = <<[error |-> StringOf(ParamGet(params, "error")),
                     description |-> StringOf(ParamGet(params, "error_description"))]>>]

\* getCallbackResponse: token: { token_type, access_token, expires_in, scope }
TokenOf(params) ==
    [token_type |-> StringOf(ParamGet(params, "token_type")),
     access_token |-> StringOf(ParamGet(params, "access_token")),
     expires_in |-> NumberOf(ParamGet(params, "expires_in")),
     scope |-> SplitSpace(StringOf(ParamGet(params, "scope")))]

\* a parser that also hands on the code that came with a token
TokenResponse_WithCode(params) ==
    [NullResponse EXCEPT
        !.type = "token",
        !.token = <<TokenOf(params)>>,
        !.code = IF Truthy(ParamGet(params, "code"))
                 THEN <<[code |-> StringOf(ParamGet(params, "code"))]>>
                 ELSE <<>>]

\* getCallbackResponse: return { type: 'token', token: { ... } }
TokenResponse(params) ==
    [NullResponse EXCEPT !.type = "token", !.token = <<TokenOf(params)>>]

\* getCallbackResponse: return { type: 'code', code: { code: String(code) } }
CodeResponse(params) ==
    [NullResponse EXCEPT !.type = "code",
                         !.code = <<[code |-> StringOf(ParamGet(params, "code"))]>>]

\* getCallbackResponse
getCallbackResponse(l) ==
    LET params == getQueryAndHash(l)
        error == ParamGet(params, "error")
        error_description == ParamGet(params, "error_description")
        token_type == ParamGet(params, "token_type")
        code == ParamGet(params, "code")
    IN  IF Truthy(error) \/ Truthy(error_description) THEN ErrorResponse(params)
        ELSE IF Truthy(token_type) THEN TokenResponse(params)
        ELSE IF Truthy(code) THEN CodeResponse(params)
        ELSE NullResponse

\* the keys the scrub step removes
oauthParams ==
    <<"code", "state", "error", "error_description",
      "access_token", "token_type", "expires_in", "scope">>

\* the location handed to history.replaceState by the scrub step
reconstructedUrl(l) ==
    [path |-> l.path,
     search |-> ParamsToString(ParamDeleteAll(ParamsOf(l.search), oauthParams)),
     hash |-> IF l.hash # <<>>
              THEN ParamsToString(ParamDeleteAll(ParamsOf(l.hash), oauthParams))
              ELSE <<>>]

(* ------------------------------ fetchUser ------------------------------ *)
\* a thrown value: an Error with a message, or something that is no Error
ErrorOf(msg) == [isError |-> TRUE, message |-> msg]
NonError == [isError |-> FALSE, message |-> ""]

FetchPrefix == "Failed to fetch user data: "

\* the profile the provider holds for the owner of an access token
UserOf(access_token) == [id |-> "id-of-" \o access_token]

\* a request without the token
FetchRequest_Anonymous(token) ==
    [method |-> "GET", url |-> "https://discord.com/api/users/@me",
     authorization |-> ""]

\* the request fetchUser issues for a token; fetch without a method is a GET
FetchRequest(token) ==
    [method |-> "GET", url |-> "https://discord.com/api/users/@me",
     authorization |-> token.token_type \o " " \o token.access_token]

\* a test that takes every response for a success
ResponseOk_Always(t) == TRUE

\* result.ok: the status is in the range 200-299
ResponseOk(t) == t.status >= 200 /\ t.status <= 299

\* a catch block that throws what it caught
WrapFetchError_Rethrow(thrown) == thrown

\* the catch block of fetchUser
WrapFetchError(thrown) ==
    IF thrown.isError THEN ErrorOf(FetchPrefix \o thrown.message)
    ELSE ErrorOf(FetchPrefix \o "Unknown error occurred")

\* fetchUser's result for a token and one behaviour t of the transport:
\* [ok |-> TRUE, user |-> <<u>>] or [ok |-> FALSE, thrown |-> an Error],
\* with the requests it issued and whether it called result.json()
fetchUser(token, t) ==
    LET fail(x, parsed) ==
            [ok |-> FALSE, user |-> <<>>, thrown |-> WrapFetchError(x),
             requests |-> <<FetchRequest(token)>>, parsed |-> parsed]
    IN  IF ~t.settled THEN fail(t.thrown, FALSE)
        ELSE IF ~ResponseOk(t)
        THEN fail(ErrorOf("Discord API responded with status: "
                          \o ToString(t.status) \o " " \o t.statusText), FALSE)
        ELSE IF ~t.parses THEN fail(t.thrown, TRUE)
        ELSE [ok |-> TRUE, user |-> <<UserOf(token.access_token)>>,
              thrown |-> NonError, requests |-> <<FetchRequest(token)>>,
              parsed |-> TRUE]

(* ----------------- normalizeDiscordConfig, generateUrl ----------------- *)
\* a normalizer that puts its default in the place of every optional field
Supplied_Never(opt) == FALSE

\* the left side of `field || default` decides: the optional string field
\* is there and is not the empty string
Supplied(opt) == Len(opt) = 1 /\ Truthy(opt[1])

\* the ReferenceError of reading `window` where there is none
NoWindow == ErrorOf("window is not defined")

\* normalizeDiscordConfig(p) on a page whose window.location.origin is o
\* (<<>> where there is no window): [ok |-> TRUE, config |-> <<c>>] or
\* [ok |-> FALSE, thrown |-> the error].  An array is truthy even when empty,
\* so scopes gets its default only when it is absent; window is read only
\* when the redirectUri is not supplied.
normalizeDiscordConfig(p, o) ==
    IF ~Supplied(p.redirectUri) /\ Len(o) = 0
    THEN [ok |-> FALSE, config |-> <<>>, thrown |-> NoWindow]
    ELSE [ok |-> TRUE,
          config |-> <<[clientId |-> p.clientId,
                        redirectUri |-> IF Supplied(p.redirectUri)
                                        THEN p.redirectUri[1] ELSE o[1],
                        responseType |-> IF Supplied(p.responseType)
                                         THEN p.responseType[1] ELSE "code",
                        scopes |-> IF Len(p.scopes) = 1
                                   THEN p.scopes[1] ELSE <<"identify">>]>>,
          thrown |-> NonError]

\* the characters of a text
Chars(s) == {SubSeq(s, i, i) : i \in 1..Len(s)}

\* the characters the application/x-www-form-urlencoded serializer of
\* URLSearchParams.toString leaves as they are
Unreserved ==
    Chars("abcdefghijklmnopqrstuvwxyzABCDEFGHIJKLMNOPQRSTUVWXYZ0123456789*-._")

\* the percent-encodings of the other characters of the modelled texts
Escapes ==
    {<<"!", "%21">>, <<"#", "%23">>, <<"$", "%24">>, <<"%", "%25">>,
     <<"&", "%26">>, <<"'", "%27">>, <<"(", "%28">>, <<")", "%29">>,
     <<"+", "%2B">>, <<",", "%2C">>, <<"/", "%2F">>, <<":", "%3A">>,
     <<";", "%3B">>, <<"=", "%3D">>, <<"?", "%3F">>, <<"@", "%40">>,
     <<"[", "%5B">>, <<"]", "%5D">>, <<"~", "%7E">>}

\* a serializer that writes every character as it is
EncodeChar_Raw(c) == c

\* the serializer on one character: a space is "+", an unreserved character
\* is itself, any other is percent-encoded
EncodeChar(c) ==
    IF c = " " THEN "+"
    ELSE IF c \in Unreserved THEN c
    ELSE (CHOOSE e \in Escapes : e[1] = c)[2]

RECURSIVE Encode(_)
Encode(s) ==
    IF Len(s) = 0 THEN ""
    ELSE EncodeChar(SubSeq(s, 1, 1)) \o Encode(SubSeq(s, 2, Len(s)))

\* URLSearchParams.toString(): name=value items joined with "&"
RECURSIVE SearchParamsToString(_)
SearchParamsToString(ps) ==
    IF Len(ps) = 0 THEN ""
    ELSE Encode(ps[1].k) \o "=" \o Encode(ps[1].v)
         \o (IF Len(ps) = 1 THEN "" ELSE "&" \o SearchParamsToString(Tail(ps)))

AuthorizeUrl == "https://discord.com/api/oauth2/authorize"

\* the position of the first character c of a text, 0 when it has none
IndexOf(s, c) ==
    LET at == {i \in 1..Len(s) : SubSeq(s, i, i) = c}
    IN  IF at = {} THEN 0 ELSE CHOOSE i \in at : \A j \in at : i <= j

\* s.split(c) for a character c
RECURSIVE SplitOn(_, _)
SplitOn(s, c) ==
    LET i == IndexOf(s, c)
    IN  IF i = 0 THEN <<s>>
        ELSE <<SubSeq(s, 1, i - 1)>> \o SplitOn(SubSeq(s, i + 1, Len(s)), c)

\* the form-urlencoded decoding of a name or a value: "+" is a space, a
\* percent-encoding is its character, any other character is itself
RECURSIVE Decode(_)
Decode(s) ==
    IF Len(s) = 0 THEN ""
    ELSE IF SubSeq(s, 1, 1) = "+" THEN " " \o Decode(SubSeq(s, 2, Len(s)))
    ELSE IF Len(s) >= 3 /\ \E e \in Escapes : e[2] = SubSeq(s, 1, 3)
         THEN (CHOOSE e \in Escapes : e[2] = SubSeq(s, 1, 3))[1]
              \o Decode(SubSeq(s, 4, Len(s)))
    ELSE SubSeq(s, 1, 1) \o Decode(SubSeq(s, 2, Len(s)))

\* the parameter list a URL parser reads from a query text: the items
\* between "&", each cut at its first "=" and decoded
ParseQuery(q) ==
    LET items == SelectSeq(SplitOn(q, "&"), LAMBDA item : Len(item) > 0)
        pair(item) ==
            LET e == IndexOf(item, "=")
            IN  IF e = 0 THEN Pair(Decode(item), "")
                ELSE Pair(Decode(SubSeq(item, 1, e - 1)),
                          Decode(SubSeq(item, e + 1, Len(item))))
    IN  IF Len(items) = 0 THEN <<>>
        ELSE [i \in 1..Len(items) |-> pair(items[i])]

\* new URL(url): the fragment starts at the first "#", the query at the
\* first "?" before it; what is left is the origin and the path
ParseUrl(url) ==
    LET h == IndexOf(url, "#")
        body == IF h = 0 THEN url ELSE SubSeq(url, 1, h - 1)
        q == IndexOf(body, "?")
    IN  [originAndPath |-> IF q = 0 THEN body ELSE SubSeq(body, 1, q - 1),
         searchParams |-> IF q = 0 THEN <<>>
                          ELSE ParseQuery(SubSeq(body, q + 1, Len(body)))]

(* ------------------------- the modelled inputs ------------------------- *)
Path == "/callback"

\* an implicit-flow callback: the token in the fragment, a non-OAuth
\* parameter in the query
LocToken ==
    [path |-> Path,
     search |-> <<Assign("tab", "1")>>,
     hash |-> <<Assign("access_token", "tok1"), Assign("token_type", "Bearer"),
                Assign("expires_in", "3600"), Assign("scope", "identify email")>>]

\* a second implicit-flow callback with another token
LocToken2 ==
    [path |-> Path,
     search |-> <<>>,
     hash |-> <<Assign("access_token", "tok2"), Assign("token_type", "Bearer")>>]

\* an authorization-code callback, on a page with an anchor
LocCode ==
    [path |-> Path,
     search |-> <<Assign("code", "abc123"), Assign("state", "xyz"), Assign("tab", "1")>>,
     hash |-> <<Bare("section")>>]

\* a provider error
LocError ==
    [path |-> Path,
     search |-> <<Assign("error", "access_denied"),
                  Assign("error_description", "User denied")>>,
     hash |-> <<>>]

\* an ordinary page
LocPlain ==
    [path |-> Path, search |-> <<Assign("tab", "1")>>, hash |-> <<Bare("section")>>]

\* a page that is no callback for the detector, with the state and the
\* error_description of an earlier authorization in its query
LocState ==
    [path |-> Path,
     search |-> <<Assign("state", "xyz"), Assign("error_description", "User denied"),
                  Assign("tab", "1")>>,
     hash |-> <<Bare("section")>>]

\* a classifying key with an empty value
LocEmptyCode ==
    [path |-> Path, search |-> <<Assign("code", "")>>, hash |-> <<>>]

InitLocations == {LocToken, LocCode, LocError, LocPlain, LocEmptyCode}
\* where the environment navigates to: a second token callback, or a page
\* that is no callback and still carries parameters of an authorization
NavLocations == {LocToken2, LocState}

\* history.replaceState works ("ok"), or the environment lacks the
\* capability ("unavailable"): history is undefined, or replaceState throws
HistoryModes == {"ok", "unavailable"}

\* what replaceState throws where it throws
ReplaceStateError == ErrorOf("replaceState is not supported")

\* what a caller callback may throw or reject with
CallbackThrows == {ErrorOf("boom"), NonError}

Transport(settled, status, statusText, parses, thrown) ==
    [settled |-> settled, status |-> status, statusText |-> statusText,
     parses |-> parses, thrown |-> thrown]

\* the behaviours of the transport: a profile, a 401, a malformed body,
\* a connection error, a rejection with a value that is no Error
Transports ==
    {Transport(TRUE, 200, "OK", TRUE, NonError),
     Transport(TRUE, 401, "Unauthorized", TRUE, NonError),
     Transport(TRUE, 200, "OK", FALSE, ErrorOf("Unexpected token")),
     Transport(FALSE, 0, "", FALSE, ErrorOf("Network down")),
     Transport(FALSE, 0, "", FALSE, NonError)}

\* the behaviours of the transport fetchUser is called with alone: those
\* above, more statuses on both sides of the 2xx range, and failures whose
\* Error has no message
FetchTransports ==
    Transports \cup
    {Transport(TRUE, 299, "", TRUE, NonError),
     Transport(TRUE, 199, "", TRUE, NonError),
     Transport(TRUE, 300, "Multiple Choices", TRUE, NonError),
     Transport(TRUE, 403, "Forbidden", FALSE, ErrorOf("Unexpected token")),
     Transport(TRUE, 500, "Internal Server Error", TRUE, NonError),
     Transport(TRUE, 204, "No Content", FALSE, ErrorOf("Unexpected end of JSON input")),
     Transport(TRUE, 200, "OK", FALSE, ErrorOf("")),
     Transport(TRUE, 200, "OK", FALSE, NonError),
     Transport(FALSE, 0, "", FALSE, ErrorOf(""))}

\* the origin of the page
Origin == "https://app.example"

\* the LoginParams of a caller that sets the clientId only; an optional
\* field is a sequence of length 0 or 1
OnlyClientId ==
    [clientId |-> "123456789012345678", redirectUri |-> <<>>,
     responseType |-> <<>>, scopes |-> <<>>]

(* ------------------------------- state --------------------------------- *)
VARIABLES
    loc,            \* window.location: path, query pairs, fragment pairs
    origin,         \* window.location.origin; <<>> where there is no window
    params,         \* the LoginParams the caller gives the hook
    historyMode,    \* the environment's history capability
    hasOnSuccess,   \* the caller registered onSuccess
    hasOnFailure,   \* the caller registered onFailure
    activated,      \* the effects of the first commit have run
    isMountedRef,   \* isMountedRef.current
    isLoading,      \* the isLoading state
    hashListeners,  \* hashchange listeners registered on window
    popListeners,   \* popstate listeners registered on window
    pending,        \* the bag of the evaluations suspended in an await
    ready,          \* the evaluation whose awaited promise has just settled, if any
    started,        \* number of callbackRunner invocations so far
    effect,         \* what the last step did to the hook's surroundings, in order
    hist            \* the history of the run

vars == <<loc, origin, params, historyMode, hasOnSuccess, hasOnFailure, activated, isMountedRef,
          isLoading, hashListeners, popListeners, pending, ready, started,
          effect, hist>>

config == <<origin, params, historyMode, hasOnSuccess, hasOnFailure>>

\* one evaluation (a callbackRunner invocation): where it stands, the local
\* variables of handleCallback (type, error, token, code, user; thrown is
\* callbackError, escaped the error callbackRunner catches), and its
\* history: how often it has called the caller callbacks and the network,
\* what failed first in it ("onSuccess" or "onFailure" threw or rejected,
\* or "fetch": fetchUser rejected), whether it has set isLoading to true
\* and back to false
NewEval ==
    [pc |-> "resolved", fault |-> "none", type |-> "null",
     error |-> <<>>, token |-> <<>>, code |-> <<>>, user |-> <<>>,
     thrown |-> <<>>, escaped |-> <<>>,
     nSuccess |-> 0, nFailure |-> 0, nFetch |-> 0,
     entered |-> FALSE, finalized |-> FALSE]

\* the pcs at which an evaluation is suspended in an await
AwaitPcs ==
    {"awaitFailure", "awaitCode", "awaitFetch", "awaitToken", "awaitCatch",
     "awaitHandle", "awaitRunner"}

\* the pcs of an evaluation whose promise has settled
FinalPcs == {"resolved", "rejected"}

\* what an observer of the hook knows of an evaluation: not its local
\* variables
Outline(ev) ==
    [ev EXCEPT !.error = <<>>, !.token = <<>>, !.code = <<>>,
               !.user = <<>>, !.thrown = <<>>, !.escaped = <<>>]

\* an evaluation as it waits in an await: of the local variables only those
\* that are read again after the await remain (the token until the fetch
\* has settled, the escaped error until callbackRunner has caught it)
Stored(ev) ==
    [ev EXCEPT !.error = <<>>, !.user = <<>>, !.thrown = <<>>,
               !.token = IF ev.pc = "awaitFetch" THEN @ ELSE <<>>,
               !.escaped = IF ev.pc = "awaitHandle" THEN @ ELSE <<>>]

\* an effect: a call of a caller callback with its argument (and, for a
\* converted exception, the caught value), a network request, a state
\* update, the settling of an evaluation's promise ("resolved",
\* "rejected"), or an event of the environment; `by` is the outline of the
\* evaluation that did it, after it did it
Effect(kind, arg, cause, by) ==
    [kind |-> kind, arg |-> arg, cause |-> cause, by |-> by]
NoArg == <<>>
Event(kind) == Effect(kind, NoArg, NoArg, <<>>)

\* the history of the run: the parsed type of the location at activation,
\* how often the environment put callback parameters into the location, how
\* often onSuccess was called and the network was asked (all evaluations
\* together), whether a navigation event started an evaluation, whether
\* something threw or rejected
InitHist(l) ==
    [activation |-> getCallbackResponse(l).type,
     put |-> IF shouldHandleCallback(l) THEN 1 ELSE 0,
     success |-> 0, fetch |-> 0, navigated |-> FALSE, faulted |-> FALSE]

Init ==
    /\ loc \in InitLocations
    /\ origin = <<Origin>>
    /\ params = OnlyClientId
    /\ historyMode \in HistoryModes
    /\ hasOnSuccess \in BOOLEAN
    /\ hasOnFailure \in BOOLEAN
    /\ activated = FALSE
    /\ isMountedRef = TRUE
    /\ isLoading = FALSE
    /\ hashListeners = 0
    /\ popListeners = 0
    /\ pending = EmptyBag
    /\ ready = <<>>
    /\ started = 0
    /\ effect = <<>>
    /\ hist = InitHist(loc)

(* ------------------ a synchronous segment of an evaluation ------------- *)
\* a segment in progress: the evaluation, the location, isLoading and the
\* history as the segment has left them so far, and the effects so far
Segment(ev, l, h, log) ==
    [ev |-> ev, loc |-> l, isLoading |-> isLoading, hist |-> h, log |-> log]

\* the history after an effect `kind`, something having thrown or not
Noted(h, kind, threw) ==
    [h EXCEPT !.success = IF kind = "onSuccess" THEN @ + 1 ELSE @,
              !.fetch = IF kind = "fetch" THEN @ + 1 ELSE @,
              !.faulted = @ \/ threw]

\* the segment m goes on with the evaluation as ev, having done `kind`
Logged(m, ev, kind, arg, cause, threw) ==
    [m EXCEPT !.ev = ev,
              !.log = Append(@, Effect(kind, arg, cause, <<Outline(ev)>>)),
              !.hist = Noted(@, kind, threw)]

\* the segment m goes on at pc
Goto(m, pc) == [m EXCEPT !.ev.pc = pc]

\* the ErrorResult the hook makes of a caught value
CallbackErrorOf(x) ==
    [error |-> "callback_error",
     description |-> IF x.isError THEN x.message ELSE "Unknown callback error"]

\* the evaluation ev after `what` threw or rejected with x, the thrown
\* value being kept in the field throwField
Thrown(ev, what, throwField, x) ==
    [ev EXCEPT ![throwField] = <<x>>,
               !.fault = IF @ = "none" THEN what ELSE @]

\* a caller callback (cb is "onSuccess" or "onFailure") is called with arg:
\* it returns (a value or a promise: the await suspends the evaluation at
\* awaitPc) or it throws x, and the control goes to throwPc with x in the
\* field throwField; `cause` is the caught value arg was made of, if any
Invoke(m, cb, arg, cause, awaitPc, throwField, throwPc) ==
    LET n == IF cb = "onSuccess" THEN "nSuccess" ELSE "nFailure"
        called == [m.ev EXCEPT ![n] = @ + 1]
    IN  {Logged(m, [called EXCEPT !.pc = awaitPc], cb, <<arg>>, cause, FALSE)}
        \cup {Logged(m, [Thrown(called, cb, throwField, x) EXCEPT !.pc = throwPc],
                     cb, <<arg>>, cause, TRUE) : x \in CallbackThrows}

\* a handleCallback that enters Processing whatever the parser returned
ShouldEnter_AnyType(ev) == isMountedRef

\* handleCallback: if (type !== null && isMountedRef.current), before the scrub
ShouldEnter(ev) == ev.type # "null" /\ isMountedRef

\* a handleCallback whose URL scrub stands in no try block of its own
ScrubCaught_NoInnerTry(ev) == FALSE

\* handleCallback: try { the URL scrub } catch { /* noop */ }
ScrubCaught(ev) == TRUE

\* handleCallback: if (typeof window !== 'undefined' && typeof history !==
\* 'undefined') { ...; history.replaceState(null, '', reconstructedUrl) },
\* in the segment m, with each of its outcomes: the location is replaced;
\* or history is undefined and the block is skipped; or replaceState throws
\* and the throw is caught on the spot
ReplaceState(m) ==
    IF historyMode = "ok"
    THEN {Logged([m EXCEPT !.loc = reconstructedUrl(m.loc)], m.ev, "replaceState",
                 <<[from |-> m.loc, to |-> reconstructedUrl(m.loc)]>>, NoArg, FALSE)}
    ELSE {m}
         \cup {IF ScrubCaught(m.ev) THEN m
                ELSE [m EXCEPT !.ev = [Thrown(@, "scrub", "thrown", ReplaceStateError)
                                          EXCEPT !.pc = "catch"],
                               !.hist = Noted(@, "none", TRUE)]}

\* handleCallback: if (type !== null && isMountedRef.current)
\*                     { setLoading(true); the URL scrub }
Scrub(m) ==
    IF ShouldEnter(m.ev)
    THEN ReplaceState(Logged([m EXCEPT !.isLoading = TRUE],
                             [m.ev EXCEPT !.pc = "error", !.entered = TRUE],
                             "setLoading", <<TRUE>>, NoArg, FALSE))
    ELSE {Goto(m, "error")}

\* handleCallback: if (error && onFailure && isMountedRef.current)
ShouldReportError(ev) == ev.error # <<>> /\ hasOnFailure /\ isMountedRef

\* a handleCallback that reports the provider's error in the shape of its
\* own conversions
ReportedError_AsCallbackError(ev) ==
    [error |-> "callback_error", description |-> ev.error[1].description]

\* handleCallback: the argument of onFailure(error)
ReportedError(ev) == ev.error[1]

\* handleCallback: if (error && onFailure && isMountedRef.current) await onFailure(error)
CheckError(m) ==
    IF ShouldReportError(m.ev)
    THEN Invoke(m, "onFailure", ReportedError(m.ev), NoArg,
                "awaitFailure", "thrown", "catch")
    ELSE {Goto(m, "code")}

\* a handleCallback that looks at the wrong callback before the code flow
ShouldReportCode_WrongCallback(ev) == ev.code # <<>> /\ hasOnFailure /\ isMountedRef

\* handleCallback: if (code && onSuccess && isMountedRef.current)
ShouldReportCode(ev) == ev.code # <<>> /\ hasOnSuccess /\ isMountedRef

\* handleCallback: if (code && onSuccess && isMountedRef.current) await onSuccess(code)
CheckCode(m) ==
    IF ShouldReportCode(m.ev)
    THEN Invoke(m, "onSuccess", m.ev.code[1], NoArg, "awaitCode", "thrown", "catch")
    ELSE {Goto(m, "token")}

\* a handleCallback that fetches the user whether or not there is an
\* onSuccess to give it to
ShouldFetch_Unguarded(ev) == ev.token # <<>> /\ isMountedRef

\* handleCallback: if (token && onSuccess && isMountedRef.current)
ShouldFetch(ev) == ev.token # <<>> /\ hasOnSuccess /\ isMountedRef

\* handleCallback: if (token && onSuccess && isMountedRef.current)
\*                     const user = await fetchUser(token)
CheckToken(m) ==
    IF ShouldFetch(m.ev)
    THEN {Logged(m, [m.ev EXCEPT !.pc = "awaitFetch", !.nFetch = @ + 1],
                 "fetch", <<FetchRequest(m.ev.token[1])>>, NoArg, FALSE)}
    ELSE {Goto(m, "finally")}

\* a handleCallback that reads the token from the location again when the
\* fetch has settled
TokenWithUser_Reparsed(token, user) ==
    LET now == IF getCallbackResponse(loc).type = "token"
               THEN getCallbackResponse(loc).token[1] ELSE token
    IN  [token_type |-> now.token_type, access_token |-> now.access_token,
         expires_in |-> now.expires_in, scope |-> now.scope, user |-> user]

\* the argument of onSuccess in the token flow: { ...token, user }
TokenWithUser(token, user) ==
    [token_type |-> token.token_type, access_token |-> token.access_token,
     expires_in |-> token.expires_in, scope |-> token.scope, user |-> user]

\* a handleCallback that does not look at isMountedRef again after the fetch
ShouldReportToken_Unguarded(ev) == TRUE

\* handleCallback: if (isMountedRef.current), after the fetch
ShouldReportToken(ev) == isMountedRef

\* handleCallback: if (isMountedRef.current) await onSuccess({ ...token, user })
AfterFetch(m) ==
    IF ShouldReportToken(m.ev)
    THEN Invoke(m, "onSuccess", TokenWithUser(m.ev.token[1], m.ev.user[1]), NoArg,
                "awaitToken", "thrown", "catch")
    ELSE {Goto(m, "finally")}

\* handleCallback, catch block: if (onFailure && isMountedRef.current)
ShouldConvert(ev) == hasOnFailure /\ isMountedRef

\* handleCallback: catch (callbackError) { if (onFailure && isMountedRef.current)
\*                     await onFailure({ error: 'callback_error', ... }) }
Catch(m) ==
    IF ShouldConvert(m.ev)
    THEN Invoke(m, "onFailure", CallbackErrorOf(m.ev.thrown[1]), m.ev.thrown,
                "awaitCatch", "escaped", "finally")
    ELSE {Goto(m, "finally")}

\* a handleCallback whose setLoading(false) ends the try block instead of
\* standing in a finally block: it is skipped when something was thrown
ShouldFinalize_TryOnly(ev) == ev.type # "null" /\ isMountedRef /\ ev.fault = "none"

\* handleCallback, finally block: if (type !== null && isMountedRef.current)
ShouldFinalize(ev) == ev.type # "null" /\ isMountedRef

\* handleCallback: finally { if (type !== null && isMountedRef.current)
\* setLoading(false) }.  Then the promise of handleCallback settles: it
\* rejects when the catch block's onFailure threw, and callbackRunner, which
\* awaits it, catches the error when it resumes; otherwise it resolves, and
\* so does the promise of callbackRunner.
Finally(m) ==
    LET pc == IF m.ev.escaped = <<>> THEN "resolved" ELSE "awaitHandle"
    IN  IF ShouldFinalize(m.ev)
        THEN {Logged([m EXCEPT !.isLoading = FALSE],
                     [m.ev EXCEPT !.pc = pc, !.finalized = TRUE],
                     "setLoading", <<FALSE>>, NoArg, FALSE)}
        ELSE {Goto(m, pc)}

\* callbackRunner, catch block: if (onFailure && isMountedRef.current)
ShouldRunnerConvert(ev) == hasOnFailure /\ isMountedRef

\* callbackRunner: catch (error) { console.error(...); if (onFailure &&
\* isMountedRef.current) await onFailure({ error: 'callback_error', ... }) };
\* a throw of this onFailure rejects the promise of callbackRunner, which
\* nothing handles
RunnerCatch(m) ==
    IF ShouldRunnerConvert(m.ev)
    THEN Invoke(m, "onFailure", CallbackErrorOf(m.ev.escaped[1]), m.ev.escaped,
                "awaitRunner", "escaped", "rejected")
    ELSE {Goto(m, "resolved")}

\* the next statement of the segment m, with each of its outcomes
Statement(m) ==
    CASE m.ev.pc = "scrub" -> Scrub(m)
      [] m.ev.pc = "error" -> CheckError(m)
      [] m.ev.pc = "code" -> CheckCode(m)
      [] m.ev.pc = "token" -> CheckToken(m)
      [] m.ev.pc = "user" -> AfterFetch(m)
      [] m.ev.pc = "catch" -> Catch(m)
      [] m.ev.pc = "finally" -> Finally(m)
      [] m.ev.pc = "handle" -> RunnerCatch(m)

\* the segment m run to its end: to the next await, or to the settling of
\* the promise of callbackRunner
RECURSIVE Run(_)
Run(m) ==
    IF m.ev.pc \in AwaitPcs THEN {m}
    ELSE IF m.ev.pc \in FinalPcs
         THEN {Logged(m, m.ev, m.ev.pc, NoArg, NoArg, FALSE)}
         ELSE UNION {Run(n) : n \in Statement(m)}

\* the segment m has run to its end: the evaluation is suspended again, or
\* it has settled
Finish(m) ==
    /\ loc' = m.loc
    /\ isLoading' = m.isLoading
    /\ hist' = m.hist
    /\ effect' = m.log
    /\ ready' = <<>>
    /\ pending' = IF m.ev.pc \in AwaitPcs
                  THEN pending (+) SetToBag({Stored(m.ev)})
                  ELSE pending

\* what the segments of an evaluation leave alone
Frame == UNCHANGED <<config, activated, isMountedRef, hashListeners, popListeners,
                     started>>

(* ------------------------ the hook's operations ------------------------ *)
\* window.addEventListener(event, listener), on the number n of the hook's
\* listeners of the event
addEventListener(n) == n + 1

\* a cleanup that hands removeEventListener a function that is not the one
\* that was registered
removeEventListener_OtherFunction(n) == n

\* window.removeEventListener(event, listener), with the closure the effect
\* registered
removeEventListener(n) == IF n > 0 THEN n - 1 ELSE n

\* a callbackRunner that calls handleCallback without asking the detector
callbackRunner_Unguarded(l) ==
    LET response == getCallbackResponse(l)
    IN  [NewEval EXCEPT !.pc = "scrub",
                        !.type = response.type,
                        !.error = response.error,
                        !.token = response.token,
                        !.code = response.code]

\* callbackRunner: if (shouldHandleCallback()) await handleCallback(), and
\* handleCallback: const response = getCallbackResponse(); type = response.type; ...
callbackRunner(l) ==
    IF shouldHandleCallback(l)
    THEN LET response == getCallbackResponse(l)
         IN  [NewEval EXCEPT !.pc = "scrub",
                             !.type = response.type,
                             !.error = response.error,
                             !.token = response.token,
                             !.code = response.code]
    ELSE NewEval

\* callbackRunner() is called on the event `trigger`, the location being l
\* and the history h: a new evaluation runs its first segment
StartEval(trigger, l, h) ==
    /\ started < MaxEvals
    /\ ready = <<>>
    /\ started' = started + 1
    /\ \E m \in Run(Segment(callbackRunner(l), l, h, <<Event(trigger)>>)) : Finish(m)

\* the first commit: the listener effect runs callbackRunner and subscribes
Mount ==
    /\ ~activated
    /\ activated' = TRUE
    /\ hashListeners' = addEventListener(hashListeners)
    /\ popListeners' = addEventListener(popListeners)
    /\ StartEval("mount", loc, hist)
    /\ UNCHANGED <<config, isMountedRef>>

\* the component is torn down: both effect cleanups run
Unmount ==
    /\ activated
    /\ isMountedRef
    /\ ready = <<>>
    /\ isMountedRef' = FALSE
    /\ hashListeners' = removeEventListener(hashListeners)
    /\ popListeners' = removeEventListener(popListeners)
    /\ effect' = <<Event("unmount")>>
    /\ UNCHANGED <<loc, config, activated, isLoading, pending, ready, started, hist>>

\* a hook whose listener effect does not depend on the caller callbacks:
\* the re-render runs no effect
Rerender_NoEffect ==
    /\ activated
    /\ isMountedRef
    /\ ready = <<>>
    /\ effect' = <<Event("rerender")>>
    /\ UNCHANGED <<loc, config, activated, isMountedRef, isLoading, hashListeners,
                   popListeners, pending, ready, started, hist>>

\* a re-render while mounted (after a state update of the hook, or of the
\* parent) in which onSuccess or onFailure has a new identity: the listener
\* effect is cleaned up and run again, which calls callbackRunner and
\* replaces the listeners.  A re-render with the same identities runs no
\* effect and changes nothing.
Rerender ==
    /\ activated
    /\ isMountedRef
    /\ StartEval("rerender", loc, hist)
    /\ hashListeners' = addEventListener(removeEventListener(hashListeners))
    /\ popListeners' = addEventListener(removeEventListener(popListeners))
    /\ UNCHANGED <<config, activated, isMountedRef>>

\* a hook that listens to hashchange only
Heard_HashOnly(event) == event = "hashchange" /\ hashListeners > 0

\* a navigation event reaches a listener
Heard(event) ==
    (IF event = "hashchange" THEN hashListeners ELSE popListeners) > 0

\* the listeners of a navigation event are called, the location being l
Dispatch(event, l, h) ==
    IF Heard(event)
    THEN StartEval("navigation", l, [h EXCEPT !.navigated = TRUE])
    ELSE /\ ready = <<>>
         /\ loc' = l
         /\ hist' = h
         /\ effect' = <<Event("navigation")>>
         /\ UNCHANGED <<isLoading, pending, ready, started>>

\* the environment changes the location and notifies
Navigate(l, event) ==
    /\ activated
    /\ isMountedRef
    /\ Dispatch(event, l, [hist EXCEPT !.put = IF shouldHandleCallback(l)
                                                THEN @ + 1 ELSE @])
    /\ UNCHANGED <<config, activated, isMountedRef, hashListeners, popListeners>>

\* the environment notifies without putting new parameters in the location
Notify(event) ==
    /\ activated
    /\ Dispatch(event, loc, hist)
    /\ UNCHANGED <<config, activated, isMountedRef, hashListeners, popListeners>>

(* ------------------------- the resumptions ----------------------------- *)
\* the awaited promise of the suspended evaluation ev has settled: ev will
\* go on as one of evs, something having been thrown at it or not
Wake(ev, evs, threw) ==
    /\ ready = <<>>
    /\ \E next \in evs : ready' = <<next>>
    /\ pending' = pending (-) SetToBag({ev})
    /\ hist' = Noted(hist, "none", threw)
    /\ effect' = <<>>
    /\ UNCHANGED <<loc, isLoading>>
    /\ Frame

\* the awaited promise of the caller callback cb settles: it resolves and
\* the evaluation will go on at resolvePc, or it rejects with x and the
\* control will go to throwPc
Settle(ev, cb, resolvePc, throwField, throwPc) ==
    \/ Wake(ev, {[ev EXCEPT !.pc = resolvePc]}, FALSE)
    \/ Wake(ev, {[Thrown(ev, cb, throwField, x) EXCEPT !.pc = throwPc] :
                    x \in CallbackThrows}, TRUE)

AwaitFailure(ev) ==
    /\ ev.pc = "awaitFailure"
    /\ Settle(ev, "onFailure", "code", "thrown", "catch")

AwaitCode(ev) ==
    /\ ev.pc = "awaitCode"
    /\ Settle(ev, "onSuccess", "token", "thrown", "catch")

\* the promise of fetchUser settles, for some behaviour of the transport
AwaitFetch(ev) ==
    /\ ev.pc = "awaitFetch"
    /\ \E t \in Transports :
          LET r == fetchUser(ev.token[1], t)
          IN  IF r.ok
              THEN Wake(ev, {[ev EXCEPT !.pc = "user", !.user = r.user]}, FALSE)
              ELSE Wake(ev, {[Thrown(ev, "fetch", "thrown", r.thrown)
                                 EXCEPT !.pc = "catch"]}, TRUE)

AwaitToken(ev) ==
    /\ ev.pc = "awaitToken"
    /\ Settle(ev, "onSuccess", "finally", "thrown", "catch")

AwaitCatch(ev) ==
    /\ ev.pc = "awaitCatch"
    /\ Settle(ev, "onFailure", "finally", "escaped", "finally")

\* the promise of handleCallback has rejected: callbackRunner will catch
AwaitHandle(ev) ==
    /\ ev.pc = "awaitHandle"
    /\ Wake(ev, {[ev EXCEPT !.pc = "handle"]}, FALSE)

AwaitRunner(ev) ==
    /\ ev.pc = "awaitRunner"
    /\ Settle(ev, "onFailure", "resolved", "escaped", "rejected")

\* the awaited promise of one suspended evaluation settles
Settling ==
    \E ev \in BagToSet(pending) :
        \/ AwaitFailure(ev)
        \/ AwaitCode(ev)
        \/ AwaitFetch(ev)
        \/ AwaitToken(ev)
        \/ AwaitCatch(ev)
        \/ AwaitHandle(ev)
        \/ AwaitRunner(ev)

\* the evaluation whose promise has settled runs on, before anything else
\* happens: to its next await, or to its end
Continue ==
    /\ ready # <<>>
    /\ \E m \in Run(Segment(ready[1], loc, hist, <<>>)) : Finish(m)
    /\ Frame

Next ==
    \/ Mount
    \/ Unmount
    \/ Rerender
    \/ \E l \in NavLocations, event \in {"hashchange", "popstate"} : Navigate(l, event)
    \/ \E event \in {"hashchange", "popstate"} : Notify(event)
    \/ Settling
    \/ Continue

Spec == Init /\ [][Next]_vars

\* every awaited promise (of fetchUser, of a caller callback, of
\* handleCallback) settles, and the evaluation that awaited it runs on
FairSpec == Spec /\ WF_vars(Settling) /\ WF_vars(Continue)

(* ------------------------- a second activation ------------------------ *)
\* an effect that marks the hook mounted whenever it runs
Reactivate_Remounting ==
    /\ activated
    /\ ~isMountedRef
    /\ hashListeners = 0
    /\ isMountedRef' = TRUE
    /\ hashListeners' = addEventListener(hashListeners)
    /\ popListeners' = addEventListener(popListeners)
    /\ StartEval("reactivation", loc, hist)
    /\ UNCHANGED <<config, activated>>

\* the effects of the same hook instance run again after their cleanups
\* have run (React does this to an instance it keeps, as in StrictMode):
\* the listener effect calls callbackRunner and subscribes; the other
\* effect has no body but its cleanup, and nothing writes to isMountedRef
Reactivate ==
    /\ activated
    /\ ~isMountedRef
    /\ hashListeners = 0
    /\ hashListeners' = addEventListener(hashListeners)
    /\ popListeners' = addEventListener(popListeners)
    /\ StartEval("reactivation", loc, hist)
    /\ UNCHANGED <<config, activated, isMountedRef>>

ReactivationNext ==
    \/ Next
    \/ Reactivate

\* the hook in an environment that may run its effects a second time
ReactivationSpec == Init /\ [][ReactivationNext]_vars

(* ---------------- the parser and the detector on their own ------------ *)
\* the items the locations of ParserSpec are written with
ParamPool ==
    {Assign("error", "access_denied"), Assign("error_description", "Denied"),
     Assign("token_type", "Bearer"), Assign("code", "abc"), Assign("code", ""),
     Assign("expires_in", "3600"), Assign("expires_in", "soon"), Assign("tab", "1")}

\* every location written with at most MaxParams items of a pool, in the
\* query, in the fragment, or in both
LocationsOf(pool) ==
    UNION {{[path |-> Path,
             search |-> SubSeq(items, 1, i),
             hash |-> SubSeq(items, i + 1, Len(items))] : i \in 0..Len(items)} :
           items \in UNION {[1..n -> pool] : n \in 0..MaxParams}}

ParserLocations == LocationsOf(ParamPool)

\* the items the token callbacks of TokenSpec are written with
TokenPool ==
    {Assign("token_type", "Bearer"), Assign("access_token", "tok1"),
     Assign("scope", "identify email"), Assign("scope", "identify"),
     Assign("scope", "guilds  email ")}

TokenLocations == LocationsOf(TokenPool)

\* the hook is not mounted and no utility has been called
Idle ==
    /\ historyMode = "ok"
    /\ hasOnSuccess = FALSE
    /\ hasOnFailure = FALSE
    /\ activated = FALSE
    /\ isMountedRef = TRUE
    /\ isLoading = FALSE
    /\ hashListeners = 0
    /\ popListeners = 0
    /\ pending = EmptyBag
    /\ ready = <<>>
    /\ started = 0
    /\ effect = <<>>
    /\ hist = InitHist(loc)

\* a page that has not mounted the hook, at one of the locations
PageAt(locations) ==
    /\ loc \in locations
    /\ origin = <<Origin>>
    /\ params = OnlyClientId
    /\ Idle

ParserInit == PageAt(ParserLocations)

TokenInit == PageAt(TokenLocations)

\* a call of one of the utilities returns `result`; nothing else changes
Returned(fn, result) ==
    /\ effect' = <<Effect(fn, <<result>>, NoArg, <<>>)>>
    /\ UNCHANGED <<loc, config, activated, isMountedRef, isLoading, hashListeners,
                   popListeners, pending, ready, started, hist>>

\* what a call of the utility fn leaves in the log when it returns
\* `result`: what the call before it returned, if the last step was a call
\* of fn too, and `result`
Again(fn, result) ==
    LET before == SelectSeq(effect, LAMBDA x : x.kind = fn)
    IN  (IF Len(before) = 0 THEN <<>> ELSE <<before[Len(before)]>>)
        \o <<Effect(fn, <<result>>, NoArg, <<>>)>>

\* a call of one of the utilities returns `result`, what the call before
\* it returned staying beside it; nothing else changes
Repeated(fn, result) ==
    /\ effect' = Again(fn, result)
    /\ UNCHANGED <<loc, config, activated, isMountedRef, isLoading, hashListeners,
                   popListeners, pending, ready, started, hist>>

\* getQueryAndHash()
CallGetQueryAndHash == Returned("getQueryAndHash", getQueryAndHash(loc))

\* a parser that takes the parameters it has read out of the location
CallGetCallbackResponse_Consuming ==
    /\ effect' = Again("getCallbackResponse", getCallbackResponse(loc))
    /\ loc' = reconstructedUrl(loc)
    /\ UNCHANGED <<config, activated, isMountedRef, isLoading, hashListeners,
                   popListeners, pending, ready, started, hist>>

\* getCallbackResponse()
CallGetCallbackResponse == Repeated("getCallbackResponse", getCallbackResponse(loc))

\* shouldHandleCallback()
CallShouldHandleCallback == Repeated("shouldHandleCallback", shouldHandleCallback(loc))

ParserNext ==
    \/ CallGetQueryAndHash
    \/ CallGetCallbackResponse
    \/ CallShouldHandleCallback

ParserSpec == ParserInit /\ [][ParserNext]_vars

\* the parser and the detector on the token callbacks
TokenSpec == TokenInit /\ [][ParserNext]_vars

\* the items the callbacks of FetchSpec are written with
FetchPool ==
    {Assign("token_type", "Bearer"), Assign("token_type", "Bot"),
     Assign("access_token", "tok1"), Assign("access_token", "tok2")}

\* a page at a token callback
FetchInit ==
    PageAt({l \in LocationsOf(FetchPool) : getCallbackResponse(l).type = "token"})

\* fetchUser(token) with the token of the location, over one behaviour of
\* the transport
CallFetchUser ==
    \E t \in FetchTransports :
        LET token == getCallbackResponse(loc).token[1]
        IN  Returned("fetchUser",
                     [token |-> token, transport |-> t,
                      result |-> fetchUser(token, t)])

FetchNext == CallFetchUser

\* fetchUser alone
FetchSpec == FetchInit /\ [][FetchNext]_vars

\* a builder that adds a state parameter that differs from call to call
generateUrl_WithNonce(c) ==
    AuthorizeUrl \o "?" \o
    SearchParamsToString(<<Pair("client_id", c.clientId),
                           Pair("response_type", c.responseType),
                           Pair("redirect_uri", c.redirectUri),
                           Pair("scope", JoinSpace(c.scopes)),
                           Pair("state", ToString(Len(effect)))>>)

\* generateUrl(config)
generateUrl(c) ==
    AuthorizeUrl \o "?" \o
    SearchParamsToString(<<Pair("client_id", c.clientId),
                           Pair("response_type", c.responseType),
                           Pair("redirect_uri", c.redirectUri),
                           Pair("scope", JoinSpace(c.scopes))>>)

\* the scopes a caller may ask for
ScopePool == {"identify", "email", "guilds.join"}

\* the LoginParams of ConfigSpec: two client ids, the redirectUri absent,
\* empty or a URL with a query and a fragment, every responseType, and the
\* scopes absent or a list of at most MaxScopes scopes
LoginParams ==
    [clientId : {"123456789012345678", "id+1 & co=100%"},
     redirectUri : {<<>>, <<"">>, <<"https://app.example/cb?next=/home&tab=1#top">>},
     responseType : {<<>>, <<"code">>, <<"token">>},
     scopes : {<<>>} \cup {<<list>> : list \in UNION {[1..n -> ScopePool] : n \in 0..MaxScopes}}]

\* a caller with some LoginParams, in a browser or where there is no window
ConfigInit ==
    /\ loc = LocPlain
    /\ origin \in {<<Origin>>, <<>>}
    /\ params \in LoginParams
    /\ Idle

\* normalizeDiscordConfig(params), as the hook calls it when it renders
CallNormalizeDiscordConfig ==
    Returned("normalizeDiscordConfig",
             [params |-> params, origin |-> origin,
              result |-> normalizeDiscordConfig(params, origin)])

\* buildUrl(): generateUrl on the normalized configuration
CallGenerateUrl ==
    LET normalized == normalizeDiscordConfig(params, origin)
    IN  /\ normalized.ok
        /\ Repeated("generateUrl",
                    [config |-> normalized.config[1],
                     url |-> generateUrl(normalized.config[1])])

ConfigNext ==
    \/ CallNormalizeDiscordConfig
    \/ CallGenerateUrl

\* the normalizer and the URL builder alone
ConfigSpec == ConfigInit /\ [][ConfigNext]_vars

(* ----------------------------- properties ------------------------------ *)
\* the effects of the last step
Effects == {effect[i] : i \in DOMAIN effect}

\* the calls of the caller callback cb in the last step
Calls(cb) == {x \in Effects : x.kind = cb}

\* the outlines of the evaluations whose promise settled in the last step
SettledEvals == {x.by[1] : x \in {y \in Effects : y.kind \in FinalPcs}}

\* the evaluations that have not settled
Pending == BagToSet(pending) \cup {ready[i] : i \in DOMAIN ready}

\* the suspended evaluations in Processing: they have set isLoading to true
\* and not run their finalization
Processing == {ev \in Pending : ev.entered /\ ~ev.finalized}

\* C1: once the component is unmounted, no step calls onSuccess or
\* onFailure or updates isLoading, whatever was pending at the unmount and
\* however it settles later.
C1_NoEffectAfterTeardown ==
    ~isMountedRef =>
        \A x \in Effects : x.kind \notin {"onSuccess", "onFailure", "setLoading"}

\* an evaluation that had entered Processing and asked for the profile was
\* unmounted while the fetch was pending; the fetch rejected, and the
\* evaluation settled without a callback and without finalization
C1_Witness ==
    /\ ~isMountedRef
    /\ hasOnSuccess
    /\ hasOnFailure
    /\ \E ev \in SettledEvals :
          /\ ev.entered
          /\ ~ev.finalized
          /\ ev.nFetch = 1
          /\ ev.fault = "fetch"
          /\ ev.nSuccess = 0
          /\ ev.nFailure = 0

\* an evaluation has entered Processing: in the last step, or earlier and
\* it is still in it
C2_Entered ==
    \/ Processing # {}
    \/ \E x \in Effects : x.kind = "setLoading" /\ x.arg = <<TRUE>>

\* C2: when an evaluation has entered Processing, then at some later point
\* no evaluation is in Processing any more and isLoading is false, unless
\* the component is unmounted; on every path, the fetch and the awaited
\* callbacks settling.
C2_LoadingEventuallyFalse ==
    C2_Entered ~> (~isMountedRef \/ (Processing = {} /\ ~isLoading))

\* a mounted evaluation whose onSuccess threw has settled after its
\* finalization, nothing else is pending and isLoading is false
C2_Witness ==
    /\ isMountedRef
    /\ ~isLoading
    /\ Pending = {}
    /\ \E ev \in SettledEvals :
          /\ ev.entered
          /\ ev.finalized
          /\ ev.fault = "onSuccess"

\* the TokenResult of the token callback LocToken
LocTokenResult ==
    TokenWithUser(getCallbackResponse(LocToken).token[1], UserOf("tok1"))

\* C3: in a run that is activated on a token callback with onSuccess
\* registered, that stays mounted, in which nothing fails and to which no
\* navigation event comes (re-renders only), onSuccess is called at most
\* once, with the parsed token fields plus the fetched user, onFailure is
\* never called, and once everything has settled onSuccess has been called
\* once and isLoading is false.
C3_TokenSuccessOnce ==
    (/\ activated
     /\ isMountedRef
     /\ hasOnSuccess
     /\ hist.activation = "token"
     /\ ~hist.navigated
     /\ ~hist.faulted)
    => /\ hist.success <= 1
       /\ Calls("onFailure") = {}
       /\ \A x \in Calls("onSuccess") : x.arg = <<LocTokenResult>>
       /\ Pending = {} => (hist.success = 1 /\ ~isLoading)

\* C4: the promise of the evaluation started at activation never rejects
\* (the claim says so of every evaluation started at activation or by a
\* navigation event).
C4_NoUnhandledRejection ==
    started = 1 => \A x \in Effects : x.kind # "rejected"

\* C5: a mounted evaluation in which onSuccess threw or rejected, onFailure
\* being registered, has called onFailure exactly once when it settles, and
\* the conversion of a caught value x carries callback_error and x's
\* message, or the placeholder when x is no Error.
C5_SuccessThrowOneFailure ==
    /\ \A ev \in SettledEvals :
          (isMountedRef /\ hasOnFailure /\ ev.fault = "onSuccess") => ev.nFailure = 1
    /\ \A x \in Calls("onFailure") :
          x.cause # <<>> =>
             x.arg[1] = [error |-> "callback_error",
                         description |-> IF x.cause[1].isError
                                         THEN x.cause[1].message
                                         ELSE "Unknown callback error"]

\* C6: a mounted token evaluation whose fetchUser failed has not called
\* onSuccess when it settles and, onFailure being registered, has called
\* onFailure exactly once; that call carries callback_error and a
\* description that starts with the prefix of fetchUser.
C6_FetchFailureOneFailure ==
    /\ \A ev \in SettledEvals :
          (isMountedRef /\ ev.fault = "fetch")
          => /\ ev.type = "token"
             /\ ev.nSuccess = 0
             /\ hasOnFailure => ev.nFailure = 1
    /\ \A x \in Calls("onFailure") :
          (x.by[1].fault = "fetch" /\ x.by[1].nFailure = 1)
          => /\ x.arg[1].error = "callback_error"
             /\ StartsWith(x.arg[1].description, FetchPrefix)

\* the ErrorResult of the error callback LocError
LocErrorResult == [error |-> "access_denied", description |-> "User denied"]

\* C7, as stated: a mounted error evaluation, onFailure being registered,
\* has called onFailure exactly once when it settles.
C7_ErrorOneFailure ==
    \A ev \in SettledEvals :
        (isMountedRef /\ hasOnFailure /\ ev.type = "error") => ev.nFailure = 1

\* C7, amended: a mounted error evaluation, onFailure being registered, has
\* called onFailure when it settles, exactly once if nothing threw in it,
\* and nothing but onFailure can have thrown in it; the first call (the one
\* that converts no caught value) carries the parser's ErrorResult;
\* onSuccess was not called and the profile endpoint was not asked.
C7_ErrorReportedVerbatim ==
    /\ \A ev \in SettledEvals :
          (isMountedRef /\ hasOnFailure /\ ev.type = "error")
          => /\ ev.nFailure >= 1
             /\ ev.fault = "none" => ev.nFailure = 1
             /\ ev.fault \in {"none", "onFailure"}
             /\ ev.nSuccess = 0
             /\ ev.nFetch = 0
    /\ \A x \in Calls("onFailure") :
          x.cause = <<>> => (x.by[1].type = "error" /\ x.arg = <<LocErrorResult>>)

\* a mounted error evaluation has settled after one call of onFailure that
\* returned
C7_Witness ==
    /\ isMountedRef
    /\ hasOnFailure
    /\ hasOnSuccess
    /\ \E ev \in SettledEvals :
          /\ ev.type = "error"
          /\ ev.fault = "none"
          /\ ev.nFailure = 1
          /\ ev.finalized

\* C8: a mounted code evaluation, onSuccess being registered, has called
\* onSuccess exactly once when it settles and has not asked the profile
\* endpoint; the call carries the CodeResult, and no request is made by a
\* code evaluation.
C8_CodeOneSuccessNoFetch ==
    /\ \A ev \in SettledEvals :
          (isMountedRef /\ hasOnSuccess /\ ev.type = "code")
          => (ev.nSuccess = 1 /\ ev.nFetch = 0)
    /\ \A x \in Calls("onSuccess") :
          x.by[1].type = "code" => x.arg = <<[code |-> "abc123"]>>
    /\ \A x \in Calls("fetch") : x.by[1].type # "code"

\* a mounted code evaluation has settled after its call of onSuccess
C8_Witness ==
    /\ isMountedRef
    /\ hasOnSuccess
    /\ \E ev \in SettledEvals :
          /\ ev.type = "code"
          /\ ev.nSuccess = 1
          /\ ev.nFetch = 0
          /\ ev.finalized

\* C9: while the component is mounted and an evaluation is in Processing,
\* isLoading is true.
C9_LoadingWhileProcessing ==
    (isMountedRef /\ Processing # {}) => isLoading

\* C10: as long as the token callback of the activation is the only
\* callback the environment has put into the location, the profile
\* endpoint is asked at most once and onSuccess is called at most once.
C10_TokenProcessedOnce ==
    (hist.activation = "token" /\ hist.put = 1)
    => (hist.fetch <= 1 /\ hist.success <= 1)

\* C11: a hook instance has at most one hashchange listener and at most one
\* popstate listener, exactly one of each while it is mounted and none after
\* teardown, also when the listener effect has been run again.
C11_ListenersPaired ==
    /\ hashListeners <= 1
    /\ popListeners <= 1
    /\ (activated /\ isMountedRef) => (hashListeners = 1 /\ popListeners = 1)
    /\ ~isMountedRef => (hashListeners = 0 /\ popListeners = 0)

\* the listener effect has just been run again, and there is one listener
\* of each event
C11_Witness ==
    /\ effect # <<>>
    /\ effect[1].kind = "rerender"
    /\ hashListeners = 1
    /\ popListeners = 1

\* the parsed type of the location a notification found: the location
\* before the scrub if there was one, otherwise the location as it is
C12_TypeFound(l, effects) ==
    LET scrubs == {x \in effects : x.kind = "replaceState"}
        found == IF scrubs = {} THEN l ELSE (CHOOSE x \in scrubs : TRUE).arg[1].from
    IN  IF shouldHandleCallback(found) THEN getCallbackResponse(found).type ELSE "null"

\* C12: a step in which a hashchange or popstate notification arrives
\* starts exactly one evaluation while the component is mounted, and that
\* evaluation handles the parsed type of the location if the detector is
\* true of it and nothing otherwise; after teardown the step starts none.
C12_NotificationStartsEvaluation ==
    [][(effect' # <<>> /\ effect'[1].kind = "navigation")
       => IF isMountedRef
          THEN LET acts == {effect'[i] : i \in 2..Len(effect')}
               IN  /\ started' = started + 1
                   /\ acts # {}
                   /\ \A x \in acts :
                         /\ x.by # <<>>
                         /\ x.by[1].type = C12_TypeFound(loc', acts)
          ELSE /\ started' = started
               /\ Len(effect') = 1
               /\ pending' = pending]_vars

\* a navigation event has brought a token callback to the mounted
\* component, and the evaluation it started has asked for the profile
C12_Witness ==
    /\ isMountedRef
    /\ effect # <<>>
    /\ effect[1].kind = "navigation"
    /\ \E x \in Effects : x.kind = "fetch" /\ x.by[1].type = "token"

\* the items of a location part that carry no OAuth key, as written
NonOAuth(raw) ==
    SelectSeq(raw, LAMBDA w : \A i \in DOMAIN oauthParams : w.k # oauthParams[i])

\* C13: after the scrub step (mounted, history usable) the visible location
\* is the one handed to replaceState, it has no OAuth key in its query or
\* in its fragment, and its path, its other query items and its other
\* fragment items are as they were written before the step.
C13_ScrubKeepsTheRest ==
    \A x \in Effects :
        x.kind = "replaceState"
        => LET from == x.arg[1].from
               to == x.arg[1].to
           IN  /\ loc = to
               /\ NonOAuth(to.search) = to.search
               /\ NonOAuth(to.hash) = to.hash
               /\ to.path = from.path
               /\ to.search = NonOAuth(from.search)
               /\ to.hash = NonOAuth(from.hash)

\* C14: where the history cannot be used, onFailure is called only with
\* the parsed error or with the conversion of what a callback or the fetch
\* threw, the location stays as it is, and a mounted evaluation that
\* settles has entered Processing, done what its type asks for (the code
\* flow its onSuccess, the token flow its fetch and, nothing failing, its
\* onSuccess, the error flow its onFailure) and set isLoading back to false.
C14_ScrubFailureSwallowed ==
    historyMode = "unavailable"
    => /\ \A x \in Effects : x.kind # "replaceState"
       /\ \A x \in Calls("onFailure") :
             \/ x.cause = <<>> /\ x.by[1].type = "error"
             \/ x.cause # <<>> /\ x.by[1].fault \in {"onSuccess", "onFailure", "fetch"}
       /\ \A ev \in SettledEvals :
             (isMountedRef /\ ev.type # "null")
             => /\ ev.entered
                /\ ev.finalized
                /\ (ev.type = "code" /\ hasOnSuccess) => ev.nSuccess = 1
                /\ (ev.type = "token" /\ hasOnSuccess)
                   => (ev.nFetch = 1 /\ (ev.fault = "none" => ev.nSuccess = 1))
                /\ (ev.type = "error" /\ hasOnFailure) => ev.nFailure >= 1

\* where the history cannot be used, a mounted code evaluation has settled
\* after its onSuccess and its finalization, without a call of onFailure,
\* and the code is still in the location
C14_Witness ==
    /\ historyMode = "unavailable"
    /\ isMountedRef
    /\ hasOnFailure
    /\ ~isLoading
    /\ shouldHandleCallback(loc)
    /\ \E ev \in SettledEvals :
          /\ ev.type = "code"
          /\ ev.nSuccess = 1
          /\ ev.nFailure = 0
          /\ ev.finalized

\* the keys written in the query or in the fragment of a location
WrittenKeys(l) ==
    {l.search[i].k : i \in DOMAIN l.search} \cup {l.hash[i].k : i \in DOMAIN l.hash}

\* what the calls of the utility fn returned in the last step
Results(fn) == {x.arg[1] : x \in {y \in Effects : y.kind = fn}}

\* the value of the last item of the key k in a location part
LastValue(raw, k) ==
    LET idx == {i \in DOMAIN raw : raw[i].k = k}
    IN  raw[CHOOSE i \in idx : \A j \in idx : j <= i].v

\* C15: getCallbackResponse classifies by the presence of keys, in strict
\* priority: error or error_description, then token_type, then code, else
\* null.
C15_PriorityByPresence ==
    \A r \in Results("getCallbackResponse") :
        r.type = IF "error" \in WrittenKeys(loc) \/ "error_description" \in WrittenKeys(loc)
                 THEN "error"
                 ELSE IF "token_type" \in WrittenKeys(loc) THEN "token"
                 ELSE IF "code" \in WrittenKeys(loc) THEN "code"
                 ELSE "null"

\* C16, as stated: at a location with none of the keys code, error,
\* token_type, getCallbackResponse returns { type: null } and
\* shouldHandleCallback returns false.
C16_NoTargetKeyNoCallback ==
    WrittenKeys(loc) \cap {"code", "error", "token_type"} = {}
    => /\ \A r \in Results("getCallbackResponse") : r = NullResponse
       /\ \A d \in Results("shouldHandleCallback") : d = FALSE

\* C16, amended: at a location with none of the keys code, error,
\* error_description, token_type, getCallbackResponse returns { type: null }
\* and shouldHandleCallback returns false.
C16_NoCallbackKeyNoCallback ==
    WrittenKeys(loc) \cap {"code", "error", "error_description", "token_type"} = {}
    => /\ \A r \in Results("getCallbackResponse") : r = NullResponse
       /\ \A d \in Results("shouldHandleCallback") : d = FALSE

\* getCallbackResponse has returned { type: null } at a location that
\* carries parameters in its query and in its fragment, none of them one of
\* the four keys
C16_Witness ==
    /\ loc.search # <<>>
    /\ loc.hash # <<>>
    /\ WrittenKeys(loc) \cap {"code", "error", "error_description", "token_type"} = {}
    /\ NullResponse \in Results("getCallbackResponse")

\* C17: shouldHandleCallback returns true exactly when one of the keys
\* code, error, token_type is written in the query or in the fragment,
\* whatever its value.
C17_DetectsByPresence ==
    \A d \in Results("shouldHandleCallback") :
        d = (WrittenKeys(loc) \cap {"code", "error", "token_type"} # {})

\* shouldHandleCallback has returned true at a location whose only
\* parameter is a code key with the empty value
C17_Witness ==
    /\ loc.search = <<Assign("code", "")>>
    /\ loc.hash = <<>>
    /\ TRUE \in Results("shouldHandleCallback")

\* C18: a result of getCallbackResponse carries the payload of its type and
\* no other: error with type 'error' only, token with type 'token' only,
\* code with type 'code' only, none of them with type null.
C18_PayloadMatchesType ==
    \A r \in Results("getCallbackResponse") :
        /\ r.type \in {"error", "token", "code", "null"}
        /\ (r.error # <<>>) = (r.type = "error")
        /\ (r.token # <<>>) = (r.type = "token")
        /\ (r.code # <<>>) = (r.type = "code")
        /\ Len(r.error) <= 1 /\ Len(r.token) <= 1 /\ Len(r.code) <= 1

\* getCallbackResponse has returned a token result, without a code, at a
\* location that carries a non-empty code besides the token_type
C18_Witness ==
    /\ \E i \in DOMAIN loc.search : loc.search[i] = Assign("code", "abc")
    /\ \E i \in DOMAIN loc.hash : loc.hash[i].k = "token_type"
    /\ \E r \in Results("getCallbackResponse") : r.type = "token" /\ r.code = <<>>

\* a location without the query items whose key is written in the fragment
WithoutShadowed(l) ==
    [l EXCEPT !.search =
        SelectSeq(@, LAMBDA w : \A i \in DOMAIN l.hash : l.hash[i].k # w.k)]

\* C19: in the merged parameters every written key has one value: the
\* fragment's (its last there) if the fragment has the key, otherwise the
\* query's; getCallbackResponse and shouldHandleCallback return what they
\* return when the query items of the fragment's keys are left out.
C19_FragmentOverridesQuery ==
    /\ \A m \in Results("getQueryAndHash") :
          /\ ParamKeys(m) = WrittenKeys(loc)
          /\ \A k \in WrittenKeys(loc) :
                /\ Cardinality({i \in DOMAIN m : m[i].k = k}) = 1
                /\ ParamGet(m, k) =
                      IF \E i \in DOMAIN loc.hash : loc.hash[i].k = k
                      THEN LastValue(loc.hash, k)
                      ELSE LastValue(loc.search, k)
    /\ \A r \in Results("getCallbackResponse") :
          r = getCallbackResponse(WithoutShadowed(loc))
    /\ \A d \in Results("shouldHandleCallback") :
          d = shouldHandleCallback(WithoutShadowed(loc))

\* the merge has kept the fragment's code, not the query's, and the
\* query's tab
C19_Witness ==
    /\ loc.search = <<Assign("code", ""), Assign("tab", "1")>>
    /\ loc.hash = <<Assign("code", "abc")>>
    /\ \E m \in Results("getQueryAndHash") :
          ParamGet(m, "code") = "abc" /\ ParamGet(m, "tab") = "1"

\* C20: in a token result expires_in is the number the merged expires_in
\* parameter is written as, and NaN when the parameter is no number or is
\* absent.
C20_ExpiresInNumberOrNaN ==
    \A r \in Results("getCallbackResponse") :
        r.type = "token"
        => LET v == ParamGet(getQueryAndHash(loc), "expires_in")
           IN  r.token[1].expires_in =
                  IF /\ "expires_in" \in WrittenKeys(loc)
                     /\ v # ""
                     /\ \A i \in 1..Len(v) : SubSeq(v, i, i) \in Digits
                  THEN v
                  ELSE "NaN"

\* C21: in a token result scope is the merged scope parameter split at
\* every single space, 'identify email' giving <<"identify", "email">>, and
\* <<"null">> when the parameter is absent: the text an absent access_token
\* is given as.
C21_ScopeSplitOnSpaces ==
    \A r \in Results("getCallbackResponse") :
        r.type = "token"
        => LET scope == ParamGet(getQueryAndHash(loc), "scope")
               token == r.token[1]
           IN  /\ scope = "identify email" => token.scope = <<"identify", "email">>
               /\ scope = "identify" => token.scope = <<"identify">>
               /\ "scope" \notin WrittenKeys(loc) => token.scope = <<"null">>
               /\ "access_token" \notin WrittenKeys(loc) => token.access_token = "null"
               /\ scope = "guilds  email "
                  => token.scope = <<"guilds", "", "email", "">>
               /\ JoinSpace(token.scope) = StringOf(scope)
               /\ \A i \in DOMAIN token.scope :
                     \A j \in 1..Len(token.scope[i]) :
                         SubSeq(token.scope[i], j, j) # " "

\* the parser has returned a token result with the two scopes of the
\* fragment, at a location without an access_token
C21_Witness ==
    /\ "access_token" \notin WrittenKeys(loc)
    /\ \E i \in DOMAIN loc.hash : loc.hash[i] = Assign("scope", "identify email")
    /\ \E r \in Results("getCallbackResponse") :
          /\ r.type = "token"
          /\ r.token[1].scope = <<"identify", "email">>
          /\ r.token[1].access_token = "null"

\* C22: in an error result at a location with only one of the keys error,
\* error_description, the field of the missing key is not the text 'null'.
C22_MissingErrorFieldNotNull ==
    \A r \in Results("getCallbackResponse") :
        r.type = "error"
        => /\ "error" \notin WrittenKeys(loc) => r.error[1].error # "null"
           /\ "error_description" \notin WrittenKeys(loc)
              => r.error[1].description # "null"

\* C23: every call of fetchUser issues exactly one request, a GET to
\* https://discord.com/api/users/@me with the authorization header
\* '<token_type> <access_token>' of its token, whatever the transport does.
C23_OneAuthenticatedGet ==
    \A c \in Results("fetchUser") :
        /\ Len(c.result.requests) = 1
        /\ c.result.requests[1].method = "GET"
        /\ c.result.requests[1].url = "https://discord.com/api/users/@me"
        /\ c.result.requests[1].authorization
              = c.token.token_type \o " " \o c.token.access_token

\* fetchUser was called with the token Bot tok2 over a transport that failed
C23_Witness ==
    \E c \in Results("fetchUser") :
        /\ ~c.transport.settled
        /\ ~c.result.ok
        /\ c.result.requests[1].authorization = "Bot tok2"

\* C24: when the transport answers with a status outside 200-299, fetchUser
\* rejects with 'Failed to fetch user data: Discord API responded with
\* status: <status> <statusText>' and does not parse the body.
C24_BadStatusRejected ==
    \A c \in Results("fetchUser") :
        (c.transport.settled /\ (c.transport.status < 200 \/ c.transport.status > 299))
        => /\ ~c.result.ok
           /\ c.result.thrown.isError
           /\ c.result.thrown.message
                 = "Failed to fetch user data: Discord API responded with status: "
                   \o ToString(c.transport.status) \o " " \o c.transport.statusText
           /\ ~c.result.parsed

\* fetchUser was called over a transport that answered 403 Forbidden with a
\* body that is no JSON
C24_Witness ==
    \E c \in Results("fetchUser") :
        /\ c.transport.settled
        /\ c.transport.status = 403
        /\ ~c.transport.parses
        /\ c.result.thrown.message
              = "Failed to fetch user data: Discord API responded with status: 403 Forbidden"

\* the message of the failure fetchUser met over the transport of a call
OriginalMessage(t) ==
    IF t.settled /\ (t.status < 200 \/ t.status > 299)
    THEN "Discord API responded with status: "
         \o ToString(t.status) \o " " \o t.statusText
    ELSE t.thrown.message

\* C25: every failure of fetchUser (transport, status, body) is a rejection
\* with an Error whose message starts with 'Failed to fetch user data: ',
\* followed by the message of the failure when that is an Error; fetchUser
\* resolves only with the parsed body of a 2xx response.
C25_FailuresWrapped ==
    \A c \in Results("fetchUser") :
        LET t == c.transport
            failed == ~t.settled \/ t.status < 200 \/ t.status > 299 \/ ~t.parses
        IN  /\ failed
               => /\ ~c.result.ok
                  /\ c.result.thrown.isError
                  /\ StartsWith(c.result.thrown.message, "Failed to fetch user data: ")
                  /\ (t.settled /\ (t.status < 200 \/ t.status > 299)) \/ t.thrown.isError
                     => c.result.thrown.message
                           = "Failed to fetch user data: " \o OriginalMessage(t)
            /\ c.result.ok
               => /\ t.settled /\ t.status >= 200 /\ t.status <= 299 /\ t.parses
                  /\ c.result.parsed
                  /\ c.result.user = <<UserOf(c.token.access_token)>>

\* fetchUser was called over a transport whose 200 response has a malformed
\* body, and rejected with the wrapped message of the parser
C25_Witness ==
    \E c \in Results("fetchUser") :
        /\ c.transport.settled
        /\ c.transport.status = 200
        /\ ~c.transport.parses
        /\ c.result.thrown.message = "Failed to fetch user data: Unexpected token"

\* C26: when the transport fails with a failure that carries no message (a
\* value that is no Error, or an Error with an empty message), fetchUser
\* rejects with exactly 'Failed to fetch user data: Unknown error occurred'.
C26_NoMessageIsUnknownError ==
    \A c \in Results("fetchUser") :
        (~c.transport.settled
         /\ (~c.transport.thrown.isError \/ c.transport.thrown.message = ""))
        => /\ ~c.result.ok
           /\ c.result.thrown.message
                 = "Failed to fetch user data: Unknown error occurred"

\* C27: on a page with an origin, normalizeDiscordConfig of LoginParams
\* with only the clientId set returns that clientId, responseType 'code',
\* scopes <<"identify">> and the page's origin as redirectUri; and whatever
\* it returns has every field the caller supplied with a non-empty value
\* unchanged.
C27_DefaultsForMissingFields ==
    \A c \in Results("normalizeDiscordConfig") :
        /\ (Len(c.origin) = 1 /\ c.params.redirectUri = <<>>
            /\ c.params.responseType = <<>> /\ c.params.scopes = <<>>)
           => /\ c.result.ok
              /\ c.result.config
                    = <<[clientId |-> c.params.clientId,
                         redirectUri |-> c.origin[1],
                         responseType |-> "code",
                         scopes |-> <<"identify">>]>>
        /\ c.result.ok
           => LET returned == c.result.config[1]
              IN  /\ returned.clientId = c.params.clientId
                  /\ (Len(c.params.redirectUri) = 1 /\ c.params.redirectUri[1] # "")
                     => returned.redirectUri = c.params.redirectUri[1]
                  /\ Len(c.params.responseType) = 1
                     => returned.responseType = c.params.responseType[1]
                  /\ (Len(c.params.scopes) = 1 /\ Len(c.params.scopes[1]) > 0)
                     => returned.scopes = c.params.scopes[1]

\* the normalizer was called with a clientId and two scopes only, and
\* returned the origin, 'code' and the two scopes
C27_Witness ==
    \E c \in Results("normalizeDiscordConfig") :
        /\ c.params.redirectUri = <<>>
        /\ c.params.responseType = <<>>
        /\ c.params.scopes = <<(<<"identify", "email">>)>>
        /\ c.result.ok
        /\ c.result.config[1].redirectUri = Origin
        /\ c.result.config[1].responseType = "code"
        /\ c.result.config[1].scopes = <<"identify", "email">>

\* C28: every LoginConfig normalizeDiscordConfig returns has a non-empty
\* clientId, redirectUri and responseType and a non-empty sequence of
\* scopes, whatever the LoginParams.
C28_NormalizedFieldsNonEmpty ==
    \A c \in Results("normalizeDiscordConfig") :
        c.result.ok
        => LET returned == c.result.config[1]
           IN  /\ returned.clientId # ""
               /\ returned.redirectUri # ""
               /\ returned.responseType # ""
               /\ Len(returned.scopes) > 0

\* C29: normalizeDiscordConfig raises no error, for any LoginParams, on a
\* page or where there is no window.
C29_NormalizeNeverThrows ==
    \A c \in Results("normalizeDiscordConfig") : c.result.ok

\* C30: the URL generateUrl returns for a LoginConfig has the origin and
\* path https://discord.com/api/oauth2/authorize and a query that reads
\* back as exactly four parameters: client_id, response_type, redirect_uri
\* and scope, with the clientId, the responseType, the redirectUri and the
\* scopes joined with one space as their decoded values.
C30_UrlRoundTrip ==
    \A c \in Results("generateUrl") :
        LET url == ParseUrl(c.url)
        IN  /\ url.originAndPath = "https://discord.com/api/oauth2/authorize"
            /\ Len(url.searchParams) = 4
            /\ ParamKeys(url.searchParams)
                  = {"client_id", "response_type", "redirect_uri", "scope"}
            /\ ParamGet(url.searchParams, "client_id") = c.config.clientId
            /\ ParamGet(url.searchParams, "response_type") = c.config.responseType
            /\ ParamGet(url.searchParams, "redirect_uri") = c.config.redirectUri
            /\ ParamGet(url.searchParams, "scope") = JoinSpace(c.config.scopes)

\* generateUrl was called with a clientId, a redirectUri and scopes whose
\* characters the serializer has to encode, and wrote them encoded
C30_Witness ==
    \E c \in Results("generateUrl") :
        /\ c.config.clientId = "id+1 & co=100%"
        /\ c.config.redirectUri = "https://app.example/cb?next=/home&tab=1#top"
        /\ c.config.scopes = <<"guilds.join", "email">>
        /\ c.config.responseType = "token"
        /\ c.url = "https://discord.com/api/oauth2/authorize"
                   \o "?client_id=id%2B1+%26+co%3D100%25&response_type=token"
                   \o "&redirect_uri=https%3A%2F%2Fapp.example%2Fcb%3Fnext%3D%2Fhome%26tab%3D1%23top"
                   \o "&scope=guilds.join+email"

\* the kinds of effect that reach the caller, the network or the page
OutwardKinds == {"onSuccess", "onFailure", "fetch", "setLoading", "replaceState"}

StepLog == effect'

\* the i-th effect of the step is a call of a caller callback or of the
\* network
Outward(i) == StepLog[i].kind \in {"onSuccess", "onFailure", "fetch"}

\* the keys of the scrub's list that a location carries
OAuthKeys(l) == WrittenKeys(l) \cap {oauthParams[i] : i \in DOMAIN oauthParams}

\* in the evaluation of a step, setLoading(true) and the scrub come before
\* every caller callback and every network call
C32_EntryFirst ==
    \A i \in DOMAIN StepLog :
        Outward(i)
        => /\ StepLog[i].by[1].entered
           /\ \A j \in DOMAIN StepLog :
                 (StepLog[j].kind = "replaceState"
                  \/ (StepLog[j].kind = "setLoading" /\ StepLog[j].arg = <<TRUE>>))
                 => j < i

\* no caller callback and no network call of an evaluation comes after its
\* setLoading(false)
C32_FinalizationLast ==
    \A i \in DOMAIN StepLog : Outward(i) => ~StepLog[i].by[1].finalized

\* where history.replaceState works, the location carries no OAuth
\* parameter when a caller callback is called
C32_ScrubbedAtCallback ==
    \A i \in DOMAIN StepLog :
        (StepLog[i].kind \in {"onSuccess", "onFailure"} /\ historyMode = "ok")
        => OAuthKeys(loc') = {}

\* C32: within an evaluation setLoading(true) and the scrub come first,
\* then the caller callbacks and the network call, and setLoading(false)
\* comes after every caller callback of the evaluation has settled; so where
\* history.replaceState works the location carries no OAuth parameter
\* whenever onSuccess or onFailure is called.
C32_FixedOrder ==
    [][C32_EntryFirst /\ C32_FinalizationLast /\ C32_ScrubbedAtCallback]_vars

\* a navigation has put a callback into the location in the step, while an
\* evaluation was suspended
C33_Overlap ==
    /\ StepLog # <<>>
    /\ StepLog[1].kind = "navigation"
    /\ hist'.put = hist.put + 1
    /\ pending # EmptyBag

\* C33: a navigation that brings a new callback while an evaluation is
\* suspended starts the new evaluation in the same step, the suspended ones
\* staying as they are; every evaluation asks the network at most once and
\* calls onSuccess at most once, and exactly once each when it is a token
\* evaluation that settles with nothing having failed, onSuccess being
\* registered and the hook mounted; and onSuccess gets the token the
\* evaluation parsed with the user its own fetch returned.
C33_OverlappingEvaluationsIndependent ==
    [][/\ C33_Overlap
          => /\ started' = started + 1
             /\ pending \sqsubseteq pending'
             /\ hasOnSuccess
                => \E i \in DOMAIN StepLog :
                      /\ StepLog[i].kind = "fetch"
                      /\ StepLog[i].arg = <<FetchRequest(getCallbackResponse(LocToken2).token[1])>>
       /\ \A ev \in BagToSet(pending') \cup SettledEvals' :
             /\ ev.nFetch <= 1
             /\ ev.nSuccess <= 1
       /\ \A ev \in SettledEvals' :
             (ev.type = "token" /\ ev.fault = "none" /\ hasOnSuccess /\ isMountedRef')
             => ev.nFetch = 1 /\ ev.nSuccess = 1
       /\ \A ev \in BagToSet(pending') :
             ev.pc = "awaitFetch" => ev.token # <<>>
       /\ (ready' # <<>> /\ ready'[1].pc = "user")
          => /\ ready'[1].user = <<UserOf(ready'[1].token[1].access_token)>>
             /\ \E ev \in BagToSet(pending) :
                   ev.pc = "awaitFetch" /\ ev.token = ready'[1].token
       /\ (ready # <<>> /\ ready[1].pc = "user")
          => \A i \in DOMAIN StepLog :
                StepLog[i].kind = "onSuccess"
                => /\ DOMAIN StepLog[i].arg[1]
                         = {"token_type", "access_token", "expires_in", "scope", "user"}
                   /\ \A f \in {"token_type", "access_token", "expires_in", "scope"} :
                         StepLog[i].arg[1][f] = ready[1].token[1][f]
                   /\ StepLog[i].arg[1].user = ready[1].user[1]
      ]_vars

\* the evaluation of the first token has called onSuccess with its token
\* and its user while the evaluation of the second token, started by a
\* navigation, awaits its fetch
C33_Witness ==
    /\ \E x \in Calls("onSuccess") :
          /\ "user" \in DOMAIN x.arg[1]
          /\ x.arg[1].access_token = "tok1"
          /\ x.arg[1].user = UserOf("tok1")
    /\ \E ev \in BagToSet(pending) :
          /\ ev.pc = "awaitFetch"
          /\ ev.token[1].access_token = "tok2"
    /\ hist.navigated

\* the step is an evaluation point: the effect has run at mount or at a
\* re-render, or a listener was called, and callbackRunner has started
EvaluationPoint ==
    /\ StepLog # <<>>
    /\ StepLog[1].kind \in {"mount", "rerender", "navigation"}
    /\ started' = started + 1

\* the location the evaluation of the step found: the one its scrub has
\* replaced, if it has scrubbed
Evaluated ==
    LET scrubs == {i \in DOMAIN StepLog : StepLog[i].kind = "replaceState"}
    IN  IF scrubs = {} THEN loc'
        ELSE StepLog[CHOOSE i \in scrubs : TRUE].arg[1].from

\* the keys of a location the detector looks for
DetectorKeys(l) == WrittenKeys(l) \cap {"code", "error", "token_type"}

\* C34: isLoading is set to true only at an evaluation point whose location
\* carries a key of the detector; at an evaluation point whose location
\* carries none, the evaluation leaves isLoading and the location as they
\* are, calls no caller callback, asks the network nothing and is over.
C34_OnlyDetectedCallbacksProcessed ==
    [][/\ (\E i \in DOMAIN StepLog :
              StepLog[i].kind = "setLoading" /\ StepLog[i].arg = <<TRUE>>)
          => EvaluationPoint /\ DetectorKeys(Evaluated) # {}
       /\ (isLoading' /\ ~isLoading)
          => EvaluationPoint /\ DetectorKeys(Evaluated) # {}
       /\ (EvaluationPoint /\ DetectorKeys(Evaluated) = {})
          => /\ isLoading' = isLoading
             /\ StepLog[1].kind # "navigation" => loc' = loc
             /\ \A i \in DOMAIN StepLog :
                   /\ ~Outward(i)
                   /\ StepLog[i].kind \notin {"setLoading", "replaceState"}
             /\ pending' = pending
      ]_vars

\* a navigation has brought a location with an error_description and no
\* key of the detector; its evaluation is over and has left isLoading and
\* the parameters as they were
C34_Witness ==
    /\ Len(effect) = 2
    /\ effect[1].kind = "navigation"
    /\ effect[2].kind = "resolved"
    /\ loc = LocState
    /\ getCallbackResponse(loc).type = "error"
    /\ hasOnFailure
    /\ historyMode = "ok"

C36_NeverActiveAgain ==
    [][/\ ~activated => isMountedRef
       /\ isMountedRef' => isMountedRef
       /\ (StepLog # <<>> /\ StepLog[1].kind = "reactivation")
          => /\ ~isMountedRef'
             /\ hashListeners' = 1
             /\ popListeners' = 1
       /\ (started' = started + 1 /\ ~isMountedRef)
          => /\ isLoading' = isLoading
             /\ StepLog[1].kind = "reactivation" => loc' = loc
             /\ pending' = pending
             /\ \A i \in DOMAIN StepLog :
                   /\ ~Outward(i)
                   /\ StepLog[i].kind \notin {"setLoading", "replaceState"}
      ]_vars

\* the effects have run again at a location that is still a token
\* callback, onSuccess being registered: the listeners are back, and the
\* evaluation is over without a fetch or a callback
C36_Witness ==
    /\ Len(effect) = 2
    /\ effect[1].kind = "reactivation"
    /\ effect[2].kind = "resolved"
    /\ ~isMountedRef
    /\ hashListeners = 1
    /\ popListeners = 1
    /\ hasOnSuccess
    /\ shouldHandleCallback(loc)
    /\ getCallbackResponse(loc).type = "token"

\* the kinds of the effects of the step, in their order
StepKinds == [i \in DOMAIN StepLog |-> StepLog[i].kind]

\* C37: without an onSuccess the network is never asked; a mounted
\* evaluation of a token callback sets isLoading to true, scrubs the
\* location (where history.replaceState works), sets isLoading to false and
\* is over, with no call of onFailure.
C37_TokenWithoutOnSuccess ==
    [][~hasOnSuccess
       => /\ hist'.fetch = 0
          /\ (EvaluationPoint /\ isMountedRef'
              /\ DetectorKeys(Evaluated) # {}
              /\ getCallbackResponse(Evaluated).type = "token")
             => /\ StepKinds
                     = <<StepLog[1].kind, "setLoading">>
                       \o (IF historyMode = "ok" THEN <<"replaceState">> ELSE <<>>)
                       \o <<"setLoading", "resolved">>
                /\ StepLog[2].arg = <<TRUE>>
                /\ StepLog[Len(StepLog) - 1].arg = <<FALSE>>
                /\ ~isLoading'
                /\ historyMode = "ok"
                   => /\ loc' = reconstructedUrl(Evaluated)
                      /\ OAuthKeys(loc') = {}
                /\ pending' = pending
      ]_vars

\* the hook has mounted at a token callback with an onFailure and no
\* onSuccess: isLoading went to true and back, the token is out of the
\* location, and nothing else happened
C37_Witness ==
    /\ ~hasOnSuccess
    /\ hasOnFailure
    /\ historyMode = "ok"
    /\ hist.activation = "token"
    /\ [i \in DOMAIN effect |-> effect[i].kind]
          = <<"mount", "setLoading", "replaceState", "setLoading", "resolved">>
    /\ loc = reconstructedUrl(LocToken)
    /\ ~isLoading

\* C38: an evaluation at a location that carries a key of the detector and
\* for which the parser returns type null leaves isLoading as it is, calls
\* no caller callback, asks the network nothing and does not scrub: the
\* parameters stay in the location.
C38_NullTypeLeftAlone ==
    [][(EvaluationPoint
        /\ DetectorKeys(Evaluated) # {}
        /\ getCallbackResponse(Evaluated).type = "null")
       => /\ StepKinds = <<StepLog[1].kind, "resolved">>
          /\ isLoading' = isLoading
          /\ StepLog[1].kind # "navigation" => loc' = loc
          /\ OAuthKeys(loc') # {}
          /\ hist'.fetch = hist.fetch
          /\ hist'.success = hist.success
          /\ pending' = pending
      ]_vars

\* the hook has mounted, with both callbacks and a usable history, at a
\* location whose code is empty: the evaluation is over and the code
\* parameter is where it was
C38_Witness ==
    /\ hasOnSuccess
    /\ hasOnFailure
    /\ historyMode = "ok"
    /\ isMountedRef
    /\ [i \in DOMAIN effect |-> effect[i].kind] = <<"mount", "resolved">>
    /\ loc = LocEmptyCode
    /\ shouldHandleCallback(loc)
    /\ ~isLoading

\* C39: a re-render, while mounted, with a new onSuccess or onFailure
\* leaves one hashchange and one popstate listener registered and starts
\* one more evaluation, of the location as it is, with no notification; when
\* that location is still a callback the evaluation processes it again: it
\* sets isLoading to true and reports the error, reports the code or
\* fetches the user, as far as the callbacks are registered.
C39_RerenderEvaluatesAgain ==
    [][(StepLog # <<>> /\ StepLog[1].kind = "rerender")
       => /\ isMountedRef
          /\ started' = started + 1
          /\ hashListeners' = 1
          /\ popListeners' = 1
          /\ Evaluated = loc
          /\ \A i \in DOMAIN StepLog : StepLog[i].kind # "navigation"
          /\ LET response == getCallbackResponse(loc)
                 did(kind, arg) ==
                     \E i \in DOMAIN StepLog :
                         StepLog[i].kind = kind /\ StepLog[i].arg = <<arg>>
             IN  (DetectorKeys(loc) # {} /\ response.type # "null")
                 => /\ did("setLoading", TRUE)
                    /\ (response.type = "error" /\ hasOnFailure)
                       => did("onFailure", response.error[1])
                    /\ (response.type = "code" /\ hasOnSuccess)
                       => did("onSuccess", response.code[1])
                    /\ (response.type = "token" /\ hasOnSuccess)
                       => did("fetch", FetchRequest(response.token[1]))
      ]_vars

\* the code callback could not be scrubbed, and a re-render has given
\* onSuccess the code a second time
C39_Witness ==
    /\ effect # <<>>
    /\ effect[1].kind = "rerender"
    /\ historyMode = "unavailable"
    /\ loc = LocCode
    /\ \E x \in Calls("onSuccess") : x.arg = <<[code |-> "abc123"]>>
    /\ hist.success = 2
    /\ ~hist.navigated

====
